---- MODULE Spec2Model ----
(***************************************************************************)
(* The Pokemon card scanner backend: the POST /api/scan-card handler of    *)
(* backend/app.py and the model client of backend/llm_handler.py.          *)
(*                                                                         *)
(* Python strings are sequences of one-character strings, so that          *)
(* str.split, str.strip, slicing, startswith and the substring test `in`   *)
(* are computed as Python computes them.  Two characters cannot be written *)
(* inside a TLA+ string and are named: Backtick (U+0060) and NonAscii (any *)
(* code point above U+007F).                                               *)
(***************************************************************************)
EXTENDS Integers, Sequences, FiniteSets, TLC

VARIABLES
    pc,             \* position of the request in scan_card / of the text in the model client
    data,           \* request.get_json()
    image_bytes,    \* base64.b64decode(encoded)
    header,         \* the data URL before its first comma
    env,            \* what the world outside the handler does to this request
    llm_response,   \* what extract_card_info_gemini returned
    response,       \* what scan_card returned: [status, body]
    uncaught,       \* the exception that left scan_card, if any
    files_written,  \* debug files written by this request
    model_calls,    \* invocations of the model client by this request
    outbound_calls, \* generate_content calls made by this request
    image_data_url, \* data['image']
    heap,           \* the module-level objects: POKEMON_CARD_SCHEMA and what it refers to
    raw_response_text, \* the model's text reply as the model client holds it
    card_data       \* the model client's parse result

vars == <<pc, data, image_bytes, header, env, llm_response, response, uncaught,
          files_written, model_calls, outbound_calls, image_data_url, heap,
          raw_response_text, card_data>>

(***************************************************************************)
(* String literals of the two source files, as character sequences.        *)
(***************************************************************************)
K_card_name == <<"c", "a", "r", "d", "_", "n", "a", "m", "e">>
K_hp == <<"h", "p">>
K_pokemon_type == <<"p", "o", "k", "e", "m", "o", "n", "_", "t", "y", "p", "e">>
K_evolves_from == <<"e", "v", "o", "l", "v", "e", "s", "_", "f", "r", "o", "m">>
K_attacks == <<"a", "t", "t", "a", "c", "k", "s">>
K_weakness == <<"w", "e", "a", "k", "n", "e", "s", "s">>
K_resistance == <<"r", "e", "s", "i", "s", "t", "a", "n", "c", "e">>
K_retreat_cost == <<"r", "e", "t", "r", "e", "a", "t", "_", "c", "o", "s", "t">>
K_card_number == <<"c", "a", "r", "d", "_", "n", "u", "m", "b", "e", "r">>
K_rarity == <<"r", "a", "r", "i", "t", "y">>
K_illustrator == <<"i", "l", "l", "u", "s", "t", "r", "a", "t", "o", "r">>
K_set_name == <<"s", "e", "t", "_", "n", "a", "m", "e">>
K_additional_info == <<"a", "d", "d", "i", "t", "i", "o", "n", "a", "l", "_", "i", "n", "f", "o">>
K_error == <<"e", "r", "r", "o", "r">>
K_raw_response == <<"r", "a", "w", "_", "r", "e", "s", "p", "o", "n", "s", "e">>
K_image == <<"i", "m", "a", "g", "e">>
K_extra == <<"e", "x", "t", "r", "a">>
K_name == <<"n", "a", "m", "e">>
K_cost == <<"c", "o", "s", "t">>
K_damage == <<"d", "a", "m", "a", "g", "e">>
K_description == <<"d", "e", "s", "c", "r", "i", "p", "t", "i", "o", "n">>
K_type == <<"t", "y", "p", "e">>
K_value == <<"v", "a", "l", "u", "e">>
S_Unknown == <<"U", "n", "k", "n", "o", "w", "n">>
S_Attack1 == <<"A", "t", "t", "a", "c", "k", " ", "1">>
S_Fire == <<"F", "i", "r", "e">>
S_Flying == <<"F", "l", "y", "i", "n", "g">>
S_x2 == <<"x", "2">>
S_Tackle == <<"T", "a", "c", "k", "l", "e">>
S_Pikachu == <<"P", "i", "k", "a", "c", "h", "u">>
S_None == <<"N", "o", "n", "e">>
S_NoImage == <<"N", "o", " ", "i", "m", "a", "g", "e", " ", "d", "a", "t", "a", " ", "p", "r", "o", "v", "i", "d", "e", "d">>
S_InvalidBase64 == <<"I", "n", "v", "a", "l", "i", "d", " ", "b", "a", "s", "e", "6", "4", " ", "i", "m", "a", "g", "e", " ", "d", "a", "t", "a">>
S_LLMProcessingError == <<"L", "L", "M", " ", "p", "r", "o", "c", "e", "s", "s", "i", "n", "g", " ", "e", "r", "r", "o", "r", ":", " ">>
S_UnexpectedError == <<"A", "n", " ", "u", "n", "e", "x", "p", "e", "c", "t", "e", "d", " ", "e", "r", "r", "o", "r", " ", "o", "c", "c", "u", "r", "r", "e", "d", ":", " ">>
S_ApiKeyNotConfigured == <<"A", "P", "I", " ", "k", "e", "y", " ", "n", "o", "t", " ", "c", "o", "n", "f", "i", "g", "u", "r", "e", "d", ".">>
S_FailedToConfigure == <<"F", "a", "i", "l", "e", "d", " ", "t", "o", " ", "c", "o", "n", "f", "i", "g", "u", "r", "e", " ", "G", "e", "m", "i", "n", "i", " ", "A", "P", "I", ":", " ">>
S_InvalidImageData == <<"I", "n", "v", "a", "l", "i", "d", " ", "i", "m", "a", "g", "e", " ", "d", "a", "t", "a", ":", " ">>
S_FailedToParse == <<"F", "a", "i", "l", "e", "d", " ", "t", "o", " ", "p", "a", "r", "s", "e", " ", "L", "L", "M", " ", "r", "e", "s", "p", "o", "n", "s", "e", " ", "a", "s", " ", "J", "S", "O", "N", ".">>
S_ContentBlocked == <<"C", "o", "n", "t", "e", "n", "t", " ", "b", "l", "o", "c", "k", "e", "d", " ", "b", "y", " ", "A", "P", "I", ".", " ", "R", "e", "a", "s", "o", "n", ":", " ">>
S_CommunicatingError == <<"A", "n", " ", "e", "r", "r", "o", "r", " ", "o", "c", "c", "u", "r", "r", "e", "d", " ", "w", "h", "i", "l", "e", " ", "c", "o", "m", "m", "u", "n", "i", "c", "a", "t", "i", "n", "g", " ", "w", "i", "t", "h", " ", "t", "h", "e", " ", "L", "L", "M", ":", " ">>
K_llm_raw_response == <<"l", "l", "m", "_", "r", "a", "w", "_", "r", "e", "s", "p", "o", "n", "s", "e">>
S_True == <<"T", "r", "u", "e">>
S_False == <<"F", "a", "l", "s", "e">>
S_ArgumentOfType == <<"a", "r", "g", "u", "m", "e", "n", "t", " ", "o", "f", " ", "t", "y", "p", "e", " ", "'">>
S_IsNotIterable == <<"'", " ", "i", "s", " ", "n", "o", "t", " ", "i", "t", "e", "r", "a", "b", "l", "e">>
S_ListIndices == <<"l", "i", "s", "t", " ", "i", "n", "d", "i", "c", "e", "s", " ", "m", "u", "s", "t", " ", "b", "e", " ", "i", "n", "t", "e", "g", "e", "r", "s", " ", "o", "r", " ", "s", "l", "i", "c", "e", "s", ",", " ", "n", "o", "t", " ", "s", "t", "r">>
S_StringIndices == <<"s", "t", "r", "i", "n", "g", " ", "i", "n", "d", "i", "c", "e", "s", " ", "m", "u", "s", "t", " ", "b", "e", " ", "i", "n", "t", "e", "g", "e", "r", "s", ",", " ", "n", "o", "t", " ", "'", "s", "t", "r", "'">>
T_dict == <<"d", "i", "c", "t">>
T_list == <<"l", "i", "s", "t">>
T_str == <<"s", "t", "r">>
T_int == <<"i", "n", "t">>
T_bool == <<"b", "o", "o", "l">>
T_NoneType == <<"N", "o", "n", "e", "T", "y", "p", "e">>
S_NotEnoughValues == <<"n", "o", "t", " ", "e", "n", "o", "u", "g", "h", " ", "v", "a", "l", "u", "e", "s", " ", "t", "o", " ", "u", "n", "p", "a", "c", "k", " ", "(", "e", "x", "p", "e", "c", "t", "e", "d", " ", "2", ",", " ", "g", "o", "t", " ", "1", ")">>
S_OnlyAscii == <<"s", "t", "r", "i", "n", "g", " ", "a", "r", "g", "u", "m", "e", "n", "t", " ", "s", "h", "o", "u", "l", "d", " ", "c", "o", "n", "t", "a", "i", "n", " ", "o", "n", "l", "y", " ", "A", "S", "C", "I", "I", " ", "c", "h", "a", "r", "a", "c", "t", "e", "r", "s">>
S_IncorrectPadding == <<"I", "n", "c", "o", "r", "r", "e", "c", "t", " ", "p", "a", "d", "d", "i", "n", "g">>
S_InvalidB64String == <<"I", "n", "v", "a", "l", "i", "d", " ", "b", "a", "s", "e", "6", "4", "-", "e", "n", "c", "o", "d", "e", "d", " ", "s", "t", "r", "i", "n", "g", ":", " ", "n", "u", "m", "b", "e", "r", " ", "o", "f", " ", "d", "a", "t", "a", " ", "c", "h", "a", "r", "a", "c", "t", "e", "r", "s", " ", "c", "a", "n", "n", "o", "t", " ", "b", "e", " ", "1", " ", "m", "o", "r", "e", " ", "t", "h", "a", "n", " ", "a", " ", "m", "u", "l", "t", "i", "p", "l", "e", " ", "o", "f", " ", "4">>
S_ListIndexOutOfRange == <<"l", "i", "s", "t", " ", "i", "n", "d", "e", "x", " ", "o", "u", "t", " ", "o", "f", " ", "r", "a", "n", "g", "e">>
S_ObjectHasNoAttributeSplit == <<"'", " ", "o", "b", "j", "e", "c", "t", " ", "h", "a", "s", " ", "n", "o", " ", "a", "t", "t", "r", "i", "b", "u", "t", "e", " ", "'", "s", "p", "l", "i", "t", "'">>
S_CannotIdentify == <<"c", "a", "n", "n", "o", "t", " ", "i", "d", "e", "n", "t", "i", "f", "y", " ", "i", "m", "a", "g", "e", " ", "f", "i", "l", "e">>
S_UnknownExtension == <<"u", "n", "k", "n", "o", "w", "n", " ", "f", "i", "l", "e", " ", "e", "x", "t", "e", "n", "s", "i", "o", "n">>
S_ResponseNotAssociated == <<"c", "a", "n", "n", "o", "t", " ", "a", "c", "c", "e", "s", "s", " ", "l", "o", "c", "a", "l", " ", "v", "a", "r", "i", "a", "b", "l", "e", " ", "'", "r", "e", "s", "p", "o", "n", "s", "e", "'", " ", "w", "h", "e", "r", "e", " ", "i", "t", " ", "i", "s", " ", "n", "o", "t", " ", "a", "s", "s", "o", "c", "i", "a", "t", "e", "d", " ", "w", "i", "t", "h", " ", "a", " ", "v", "a", "l", "u", "e">>
S_ConnectionFailed == <<"5", "0", "3", " ", "f", "a", "i", "l", "e", "d", " ", "t", "o", " ", "c", "o", "n", "n", "e", "c", "t">>
S_InvalidApiKeyFormat == <<"i", "n", "v", "a", "l", "i", "d", " ", "a", "p", "i", " ", "k", "e", "y">>
S_NoValidPart == <<"r", "e", "s", "p", "o", "n", "s", "e", ".", "t", "e", "x", "t", " ", "r", "e", "q", "u", "i", "r", "e", "s", " ", "a", " ", "v", "a", "l", "i", "d", " ", "P", "a", "r", "t">>
S_Safety == <<"S", "A", "F", "E", "T", "Y">>
S_NotJson == <<"I", " ", "c", "a", "n", "n", "o", "t", " ", "r", "e", "a", "d", " ", "t", "h", "i", "s", " ", "c", "a", "r", "d", ".">>
H_Png == <<"d", "a", "t", "a", ":", "i", "m", "a", "g", "e", "/", "p", "n", "g", ";", "b", "a", "s", "e", "6", "4">>
H_Jpeg == <<"d", "a", "t", "a", ":", "i", "m", "a", "g", "e", "/", "j", "p", "e", "g", ";", "b", "a", "s", "e", "6", "4">>
H_NoSlash == <<"d", "a", "t", "a", ":", "t", "e", "x", "t">>

\* U+0060, which a TLA+ string cannot hold
Backtick == "BACKTICK"

\* a character outside ASCII
NonAscii == "U+00E9"

(***************************************************************************)
(* Python / JSON values.  A value is a record of one shape: t is its type, *)
(* v the characters of a str (or the text of a number or bool), d the      *)
(* items of a dict, l the items of a list.  A value of type "ref" names an *)
(* object of the heap: the module-level schema objects and the objects a   *)
(* request creates are mutable and are reached through references, so that *)
(* dict.copy() (a shallow copy) and dict.update() (a mutation) are what    *)
(* they are in Python.  The values json.loads returns are never mutated by *)
(* the code and are carried by value.                                      *)
(***************************************************************************)
NoD == [k \in {} |-> 0]

JNull == [t |-> "null", v |-> <<>>, d |-> NoD, l |-> <<>>]

JStr(s) == [t |-> "str", v |-> s, d |-> NoD, l |-> <<>>]

JNum(s) == [t |-> "num", v |-> s, d |-> NoD, l |-> <<>>]

JBool(b) == [t |-> "bool", v |-> IF b THEN S_True ELSE S_False, d |-> NoD, l |-> <<>>]

JDict(f) == [t |-> "dict", v |-> <<>>, d |-> f, l |-> <<>>]

JList(q) == [t |-> "list", v |-> <<>>, d |-> NoD, l |-> q]

Ref(id) == [t |-> "ref", v |-> id, d |-> NoD, l |-> <<>>]

Deref(h, x) == IF x.t = "ref" THEN h[x.v] ELSE x

\* s1 ++ s2 occurs somewhere in the string: Python's `needle in haystack` on str
IsSubstring(needle, hay) ==
    \E i \in 0..(Len(hay) - Len(needle)) :
        \A j \in 1..Len(needle) : hay[i + j] = needle[j]

StartsWith(s, prefix) ==
    /\ Len(prefix) <= Len(s)
    /\ \A j \in 1..Len(prefix) : s[j] = prefix[j]

\* type(x).__name__
PyTypeName(x) ==
    CASE x.t = "dict" -> T_dict
      [] x.t = "list" -> T_list
      [] x.t = "str"  -> T_str
      [] x.t = "num"  -> T_int
      [] x.t = "bool" -> T_bool
      [] x.t = "null" -> T_NoneType

\* str(x), as an f-string formats x; containers are not formatted by this model
PyStr(x) ==
    CASE x.t = "str"  -> x.v
      [] x.t = "num"  -> x.v
      [] x.t = "bool" -> x.v
      [] x.t = "null" -> S_None

\* bool(x)
Truthy(x) ==
    CASE x.t = "dict" -> DOMAIN x.d # {}
      [] x.t = "list" -> x.l # <<>>
      [] x.t = "str"  -> x.v # <<>>
      [] x.t = "num"  -> x.v # <<"0">>
      [] x.t = "bool" -> x.v = S_True
      [] x.t = "null" -> FALSE

NoExc == [type |-> "", msg |-> <<>>]

Exc(type, msg) == [type |-> type, msg |-> msg]

\* `key in x`: [exc, val]
PyIn(key, x) ==
    CASE x.t = "dict" -> [exc |-> NoExc, val |-> key \in DOMAIN x.d]
      [] x.t = "list" -> [exc |-> NoExc, val |-> \E i \in 1..Len(x.l) : x.l[i] = JStr(key)]
      [] x.t = "str"  -> [exc |-> NoExc, val |-> IsSubstring(key, x.v)]
      [] OTHER -> [exc |-> Exc("TypeError", S_ArgumentOfType \o PyTypeName(x) \o S_IsNotIterable),
                   val |-> FALSE]

\* `x[key]` for a str key, where `key in x` held: [exc, val]
PyGetItem(x, key) ==
    CASE x.t = "dict" -> [exc |-> NoExc, val |-> x.d[key]]
      [] x.t = "list" -> [exc |-> Exc("TypeError", S_ListIndices), val |-> JNull]
      [] x.t = "str"  -> [exc |-> Exc("TypeError", S_StringIndices), val |-> JNull]

(***************************************************************************)
(* The heap: object id -> dict or list object.                             *)
(***************************************************************************)
\* copy() left out: the same object under a second name
copy_aliasing(h, x, id) == [heap |-> h, ref |-> x]

\* x.copy() of a dict: a new object with the same items (a shallow copy)
copy(h, x, id) == [heap |-> (id :> JDict(Deref(h, x).d)) @@ h, ref |-> Ref(id)]

\* a new empty list
NewList(h, id) == [heap |-> (id :> JList(<<>>)) @@ h, ref |-> Ref(id)]

MergeItems(a, b) ==
    [k \in DOMAIN a \cup DOMAIN b |-> IF k \in DOMAIN b THEN b[k] ELSE a[k]]

\* target.update(other): mutates the object target refers to
update(h, target, other) ==
    [h EXCEPT ![target.v] = JDict(MergeItems(@.d, other.d))]

\* target[key] = val
SetItem(h, target, key, val) ==
    [h EXCEPT ![target.v] = JDict(MergeItems(@.d, key :> val))]

\* target.append(val)
append(h, target, val) ==
    [h EXCEPT ![target.v] = JList(Append(@.l, val))]

RECURSIVE Serialize(_, _)
RECURSIVE SerializeSeq(_, _)
\* jsonify: the JSON value of x, every reference followed
Serialize(h, x) ==
    LET o == Deref(h, x)
    IN  CASE o.t = "dict" ->
               IF DOMAIN o.d = {} THEN JDict(NoD)
               ELSE JDict([k \in DOMAIN o.d |-> Serialize(h, o.d[k])])
          [] o.t = "list" -> JList(SerializeSeq(h, o.l))
          [] OTHER -> o

SerializeSeq(h, q) ==
    IF q = <<>> THEN <<>> ELSE <<Serialize(h, Head(q))>> \o SerializeSeq(h, Tail(q))

(***************************************************************************)
(* POKEMON_CARD_SCHEMA (app.py 25-52) as the objects the literal creates.  *)
(***************************************************************************)
SCHEMA == <<"POKEMON_CARD_SCHEMA">>

SchemaChild(key) == SCHEMA \o <<".">> \o key

PokemonCardSchemaObjects ==
    (SCHEMA :> JDict(
        (K_card_name :> JStr(S_Unknown))
        @@ (K_hp :> JNull)
        @@ (K_pokemon_type :> Ref(SchemaChild(K_pokemon_type)))
        @@ (K_evolves_from :> JNull)
        @@ (K_attacks :> Ref(SchemaChild(K_attacks)))
        @@ (K_weakness :> Ref(SchemaChild(K_weakness)))
        @@ (K_resistance :> Ref(SchemaChild(K_resistance)))
        @@ (K_retreat_cost :> Ref(SchemaChild(K_retreat_cost)))
        @@ (K_card_number :> JStr(<<>>))
        @@ (K_rarity :> JStr(<<>>))
        @@ (K_illustrator :> JStr(<<>>))
        @@ (K_set_name :> JStr(<<>>))
        @@ (K_additional_info :> JStr(<<>>))))
    @@ (SchemaChild(K_pokemon_type) :> JList(<<>>))
    @@ (SchemaChild(K_attacks) :> JList(<<Ref(SchemaChild(K_attacks \o <<"[", "0", "]">>))>>))
    @@ (SchemaChild(K_attacks \o <<"[", "0", "]">>) :> JDict(
        (K_name :> JStr(S_Attack1))
        @@ (K_cost :> Ref(SchemaChild(K_attacks \o <<"[", "0", "]", ".">> \o K_cost)))
        @@ (K_damage :> JStr(<<>>))
        @@ (K_description :> JStr(<<>>))))
    @@ (SchemaChild(K_attacks \o <<"[", "0", "]", ".">> \o K_cost) :> JList(<<>>))
    @@ (SchemaChild(K_weakness) :> JDict((K_type :> JNull) @@ (K_value :> JNull)))
    @@ (SchemaChild(K_resistance) :> JDict((K_type :> JNull) @@ (K_value :> JNull)))
    @@ (SchemaChild(K_retreat_cost) :> JList(<<>>))

\* POKEMON_CARD_SCHEMA.items(): the keys in insertion order
SchemaKeyOrder ==
    <<K_card_name, K_hp, K_pokemon_type, K_evolves_from, K_attacks, K_weakness,
      K_resistance, K_retreat_cost, K_card_number, K_rarity, K_illustrator,
      K_set_name, K_additional_info>>

SchemaKeys == {SchemaKeyOrder[i] : i \in 1..Len(SchemaKeyOrder)}

\* the JSON value the schema literal denotes
SchemaDefault == Serialize(PokemonCardSchemaObjects, Ref(SCHEMA))

(***************************************************************************)
(* The reconciler: scan_card, app.py 101-133.                              *)
(***************************************************************************)
PROCESSED == <<"processed_data">>

UPDATED_ATTACKS == <<"updated_attacks">>

RECURSIVE AttackLoop(_, _, _, _, _)
\* app.py 121-127: one pass of `for llm_attack in llm_response[key]`
AttackLoop(h, updated_attacks, attack_schema, attacks, j) ==
    IF j > Len(attacks) THEN h
    ELSE LET llm_attack == attacks[j]
         IN  IF llm_attack.t = "dict"
             THEN LET c  == copy(h, attack_schema, <<"current_attack", ToString(j)>>)
                      h1 == update(c.heap, c.ref, llm_attack)
                  IN  AttackLoop(append(h1, updated_attacks, c.ref),
                                 updated_attacks, attack_schema, attacks, j + 1)
             ELSE AttackLoop(append(h, updated_attacks, llm_attack),
                             updated_attacks, attack_schema, attacks, j + 1)

\* app.py 118-128: the attacks list, each mapping laid over the attack default
MergeAttacks(h, processed_data, raw) ==
    LET n == NewList(h, UPDATED_ATTACKS)
        schema_attacks == Deref(n.heap, n.heap[SCHEMA].d[K_attacks])
        attack_schema == IF Truthy(schema_attacks) THEN schema_attacks.l[1] ELSE JDict(NoD)
        h1 == AttackLoop(n.heap, n.ref, attack_schema, raw.l, 1)
    IN  SetItem(h1, processed_data, K_attacks, n.ref)

\* MergeDict without the overlay: the raw mapping replaces the default outright
MergeDict_Replace(h, processed_data, key, schema_default_value, raw) ==
    SetItem(h, processed_data, key, raw)

\* app.py 113-114: a nested dict, the raw keys laid over a copy of the default
MergeDict(h, processed_data, key, schema_default_value, raw) ==
    LET c  == copy(h, schema_default_value, PROCESSED \o <<".">> \o key)
        h1 == SetItem(c.heap, processed_data, key, c.ref)
    IN  update(h1, h1[processed_data.v].d[key], raw)

\* MergeValue without the `is not None` test of app.py 109
MergeValue_NullWins(h, processed_data, key, raw) ==
    LET schema_default_value == h[SCHEMA].d[key]
    IN  IF Deref(h, schema_default_value).t = "dict" /\ raw.t = "dict"
        THEN MergeDict(h, processed_data, key, schema_default_value, raw)
        ELSE IF Deref(h, schema_default_value).t = "list" /\ raw.t = "list"
        THEN IF key = K_attacks /\ Truthy(raw)
             THEN MergeAttacks(h, processed_data, raw)
             ELSE SetItem(h, processed_data, key, raw)
        ELSE SetItem(h, processed_data, key, raw)

\* app.py 109-132: the body of the loop for one key, given llm_response[key]
MergeValue(h, processed_data, key, raw) ==
    LET schema_default_value == h[SCHEMA].d[key]
    IN  IF raw.t = "null" THEN h
        ELSE IF Deref(h, schema_default_value).t = "dict" /\ raw.t = "dict"
        THEN MergeDict(h, processed_data, key, schema_default_value, raw)
        ELSE IF Deref(h, schema_default_value).t = "list" /\ raw.t = "list"
        THEN IF key = K_attacks /\ Truthy(raw)
             THEN MergeAttacks(h, processed_data, raw)
             ELSE SetItem(h, processed_data, key, raw)
        ELSE SetItem(h, processed_data, key, raw)

\* app.py 108-109: one pass of `for key, schema_default_value in ...items()`:
\* [heap, exc]
MergeKey(h, processed_data, llm, key) ==
    LET has == PyIn(key, llm)
    IN  IF has.exc # NoExc THEN [heap |-> h, exc |-> has.exc]
        ELSE IF ~has.val THEN [heap |-> h, exc |-> NoExc]
        ELSE LET got == PyGetItem(llm, key)
             IN  IF got.exc # NoExc THEN [heap |-> h, exc |-> got.exc]
                 ELSE [heap |-> MergeValue(h, processed_data, key, got.val), exc |-> NoExc]

RECURSIVE MergeLoop(_, _, _, _)
\* app.py 108-133
MergeLoop(st, processed_data, llm, i) ==
    IF i > Len(SchemaKeyOrder) \/ st.exc # NoExc THEN st
    ELSE MergeLoop(MergeKey(st.heap, processed_data, llm, SchemaKeyOrder[i]),
                   processed_data, llm, i + 1)

\* Reconcile starting from an empty dict instead of a copy of the schema
Reconcile_FromEmpty(h, llm) ==
    LET c  == [heap |-> (PROCESSED :> JDict(NoD)) @@ h, ref |-> Ref(PROCESSED)]
        st == MergeLoop([heap |-> c.heap, exc |-> NoExc], c.ref, llm, 1)
    IN  [heap |-> st.heap, exc |-> st.exc,
         body |-> IF st.exc = NoExc THEN Serialize(st.heap, c.ref) ELSE JNull]

\* app.py 101-140: [heap, exc, body]; body is jsonify(processed_data)
Reconcile(h, llm) ==
    LET c  == copy(h, Ref(SCHEMA), PROCESSED)
        st == MergeLoop([heap |-> c.heap, exc |-> NoExc], c.ref, llm, 1)
    IN  [heap |-> st.heap, exc |-> st.exc,
         body |-> IF st.exc = NoExc THEN Serialize(st.heap, c.ref) ELSE JNull]

(***************************************************************************)
(* str.split and base64.b64decode, as scan_card uses them (app.py 74-78).  *)
(***************************************************************************)
\* index of the first sep in s, 0 when there is none
Find(s, sep) ==
    IF \E i \in 1..Len(s) : s[i] = sep
    THEN CHOOSE i \in 1..Len(s) : s[i] = sep /\ \A j \in 1..(i - 1) : s[j] # sep
    ELSE 0

\* s.split(sep, 1)
Split1(s, sep) ==
    LET i == Find(s, sep)
    IN  IF i = 0 THEN <<s>> ELSE <<SubSeq(s, 1, i - 1), SubSeq(s, i + 1, Len(s))>>

RECURSIVE Split(_, _)
\* s.split(sep)
Split(s, sep) ==
    LET i == Find(s, sep)
    IN  IF i = 0 THEN <<s>> ELSE <<SubSeq(s, 1, i - 1)>> \o Split(SubSeq(s, i + 1, Len(s)), sep)

B64Alphabet ==
    {"A", "B", "C", "D", "E", "F", "G", "H", "I", "J", "K", "L", "M", "N", "O", "P", "Q",
     "R", "S", "T", "U", "V", "W", "X", "Y", "Z", "a", "b", "c", "d", "e", "f", "g", "h",
     "i", "j", "k", "l", "m", "n", "o", "p", "q", "r", "s", "t", "u", "v", "w", "x", "y",
     "z", "0", "1", "2", "3", "4", "5", "6", "7", "8", "9", "+", "/"}

RECURSIVE A2bBase64(_, _, _, _, _)
\* binascii.a2b_base64 without strict_mode, which b64decode(s) calls when validate
\* is left False: characters outside the alphabet are skipped, a complete pad
\* sequence ends the input, and only a quad left open at the end is an error.
\* The bytes are carried as the data characters that encode them.
A2bBase64(s, i, quad_pos, pads, out) ==
    IF i > Len(s)
    THEN IF quad_pos = 0 THEN [exc |-> NoExc, val |-> out]
         ELSE IF quad_pos = 1 THEN [exc |-> Exc("binascii.Error", S_InvalidB64String), val |-> <<>>]
         ELSE [exc |-> Exc("binascii.Error", S_IncorrectPadding), val |-> <<>>]
    ELSE IF s[i] = "="
    THEN IF quad_pos >= 2 /\ quad_pos + pads + 1 >= 4
         THEN [exc |-> NoExc, val |-> out]
         ELSE A2bBase64(s, i + 1, quad_pos, IF quad_pos >= 2 THEN pads + 1 ELSE pads, out)
    ELSE IF s[i] \notin B64Alphabet
    THEN A2bBase64(s, i + 1, quad_pos, pads, out)
    ELSE A2bBase64(s, i + 1, (quad_pos + 1) % 4, 0, Append(out, s[i]))

\* base64.b64decode(encoded) for a str argument
b64decode(encoded) ==
    IF \E i \in 1..Len(encoded) : encoded[i] = NonAscii
    THEN [exc |-> Exc("ValueError", S_OnlyAscii), val |-> <<>>]
    ELSE A2bBase64(encoded, 1, 0, 0, <<>>)

\* app.py 74-75: [exc, header, image_bytes]
DecodeDataUrl(url) ==
    IF url.t # "str"
    THEN [exc |-> Exc("AttributeError",
                      <<"'">> \o PyTypeName(url) \o S_ObjectHasNoAttributeSplit),
          header |-> <<>>, image_bytes |-> <<>>]
    ELSE LET parts == Split1(url.v, ",")
         IN  IF Len(parts) # 2
             THEN [exc |-> Exc("ValueError", S_NotEnoughValues),
                   header |-> <<>>, image_bytes |-> <<>>]
             ELSE LET dec == b64decode(parts[2])
                  IN  [exc |-> dec.exc, header |-> parts[1], image_bytes |-> dec.val]

\* app.py 78: header.split('/')[1].split(';')[0]: [exc, val]
ImageFormat(hdr) ==
    LET parts == Split(hdr, "/")
    IN  IF Len(parts) < 2 THEN [exc |-> Exc("IndexError", S_ListIndexOutOfRange), val |-> <<>>]
        ELSE [exc |-> NoExc, val |-> Split(parts[2], ";")[1]]

\* app.py 83: Image.open(io.BytesIO(image_bytes)): the exception it raises, if any
ImageOpen(is_image) ==
    IF is_image THEN NoExc ELSE Exc("UnidentifiedImageError", S_CannotIdentify)

\* SaveDebugImage with Image.open left out: bytes that are no image go on
SaveDebugImage_OpenLeftOut(hdr, is_image, save) ==
    LET fmt == ImageFormat(hdr)
    IN  IF fmt.exc # NoExc THEN [exc |-> fmt.exc, wrote |-> 0]
        ELSE IF save = "ok" THEN [exc |-> NoExc, wrote |-> 1]
        ELSE [exc |-> Exc("ValueError", S_UnknownExtension \o <<":", " ", ".">> \o fmt.val),
              wrote |-> IF save = "raises_leaving_file" THEN 1 ELSE 0]

\* app.py 78-84: [exc, wrote]; a save that fails may have created the file
SaveDebugImage(hdr, is_image, save) ==
    LET fmt == ImageFormat(hdr)
    IN  IF fmt.exc # NoExc THEN [exc |-> fmt.exc, wrote |-> 0]
        ELSE IF ImageOpen(is_image) # NoExc THEN [exc |-> ImageOpen(is_image), wrote |-> 0]
        ELSE IF save = "ok" THEN [exc |-> NoExc, wrote |-> 1]
        ELSE [exc |-> Exc("ValueError", S_UnknownExtension \o <<":", " ", ".">> \o fmt.val),
              wrote |-> IF save = "raises_leaving_file" THEN 1 ELSE 0]

(***************************************************************************)
(* Responses of scan_card.                                                 *)
(***************************************************************************)
NoResponse == [status |-> 0, body |-> JNull]

ErrorBody(msg) == JDict(K_error :> JStr(msg))

\* app.py 67
NoImageResponse == [status |-> 400, body |-> ErrorBody(S_NoImage)]

\* app.py 142-147: the two except clauses of scan_card
HandleException(exc) ==
    IF exc.type = "binascii.Error"
    THEN [status |-> 400, body |-> ErrorBody(S_InvalidBase64)]
    ELSE [status |-> 500, body |-> ErrorBody(S_UnexpectedError \o exc.msg)]

(***************************************************************************)
(* The model client: extract_card_info_gemini, llm_handler.py 42-133.      *)
(* `world` is what the environment does during the call: whether the       *)
(* credential is set, what genai.configure, generate_content and           *)
(* response.text raise, what the provider's prompt_feedback says, and what *)
(* json.loads makes of the cleaned text.                                   *)
(***************************************************************************)
World(api_key, configure_exc, generate_exc, text_exc, block_reason, text, loads) ==
    [api_key |-> api_key, configure_exc |-> configure_exc, generate_exc |-> generate_exc,
     text_exc |-> text_exc, block_reason |-> block_reason, text |-> text, loads |-> loads]

\* llm_handler.py 126-133: the `except Exception` clause of the call, where
\* response_bound says whether line 104 had assigned `response`: [exc, val]
HandleCallException(e, response_bound, block_reason) ==
    IF ~response_bound
    THEN [exc |-> Exc("UnboundLocalError", S_ResponseNotAssociated), val |-> JNull]
    ELSE IF block_reason # <<>>
    THEN [exc |-> NoExc, val |-> ErrorBody(S_ContentBlocked \o block_reason)]
    ELSE [exc |-> NoExc, val |-> ErrorBody(S_CommunicatingError \o e.msg)]

\* llm_handler.py 53-133: [exc, val, called]; called counts generate_content calls
extract_card_info_gemini(is_image, world) ==
    IF ~world.api_key
    THEN [exc |-> NoExc, val |-> ErrorBody(S_ApiKeyNotConfigured), called |-> 0]
    ELSE IF world.configure_exc # NoExc
    THEN [exc |-> NoExc, val |-> ErrorBody(S_FailedToConfigure \o world.configure_exc.msg),
          called |-> 0]
    ELSE IF ImageOpen(is_image) # NoExc
    THEN [exc |-> NoExc, val |-> ErrorBody(S_InvalidImageData \o ImageOpen(is_image).msg),
          called |-> 0]
    ELSE IF world.generate_exc # NoExc
    THEN LET r == HandleCallException(world.generate_exc, FALSE, world.block_reason)
         IN  [exc |-> r.exc, val |-> r.val, called |-> 1]
    ELSE IF world.text_exc # NoExc
    THEN LET r == HandleCallException(world.text_exc, TRUE, world.block_reason)
         IN  [exc |-> r.exc, val |-> r.val, called |-> 1]
    ELSE IF world.loads.exc # NoExc
    THEN [exc |-> NoExc,
          val |-> JDict((K_error :> JStr(S_FailedToParse))
                        @@ (K_raw_response :> JStr(world.text))),
          called |-> 1]
    ELSE [exc |-> NoExc, val |-> world.loads.val, called |-> 1]

(***************************************************************************)
(* scan_card after the model call: app.py 91-140.                          *)
(***************************************************************************)
\* app.py 91-97: the 500 answer for a result with an "error" member: [exc, response]
LLMErrorResponse(llm) ==
    LET got == PyGetItem(llm, K_error)
        raw == PyIn(K_raw_response, llm)
    IN  IF got.exc # NoExc THEN [exc |-> got.exc, response |-> NoResponse]
        ELSE [exc |-> NoExc,
              response |->
                [status |-> 500,
                 body |-> JDict(
                    IF raw.val
                    THEN (K_error :> JStr(S_LLMProcessingError \o PyStr(got.val)))
                         @@ (K_llm_raw_response :> llm.d[K_raw_response])
                    ELSE (K_error :> JStr(S_LLMProcessingError \o PyStr(got.val))))]]

\* ProcessLLMResponse testing llm_response.get("error") instead of membership
ProcessLLMResponse_ErrorTruthy(h, llm) ==
    LET failed == PyIn(K_error, llm)
    IN  IF failed.exc # NoExc THEN [exc |-> failed.exc, response |-> NoResponse, heap |-> h]
        ELSE IF failed.val /\ (llm.t # "dict" \/ Truthy(llm.d[K_error]))
        THEN [exc |-> LLMErrorResponse(llm).exc, response |-> LLMErrorResponse(llm).response,
              heap |-> h]
        ELSE LET r == Reconcile(h, llm)
             IN  [exc |-> r.exc, response |-> [status |-> 200, body |-> r.body],
                  heap |-> r.heap]

\* app.py 91-140: [exc, response, heap]
ProcessLLMResponse(h, llm) ==
    LET failed == PyIn(K_error, llm)
    IN  IF failed.exc # NoExc THEN [exc |-> failed.exc, response |-> NoResponse, heap |-> h]
        ELSE IF failed.val
        THEN [exc |-> LLMErrorResponse(llm).exc, response |-> LLMErrorResponse(llm).response,
              heap |-> h]
        ELSE LET r == Reconcile(h, llm)
             IN  [exc |-> r.exc, response |-> [status |-> 200, body |-> r.body],
                  heap |-> r.heap]

(***************************************************************************)
(* Bounds, and the inputs drawn within them.                               *)
(***************************************************************************)
\* longest base64 payload of a data URL
MaxPayloadLen == 5

\* most members of a JSON object the model returns
MaxReplyKeys == 2

PayloadChars == {"Q", "=", "%", NonAscii}

Payloads == UNION {[1..n -> PayloadChars] : n \in 0..MaxPayloadLen}

Headers == {H_Png, H_Jpeg, H_NoSlash, <<>>}

\* payloads that decode, for the headers other than H_Png
SamplePayloads == {<<>>, <<"Q", "Q", "=", "=">>, <<"Q", "Q", "Q", "Q">>}

\* data['image'] when it is a str: with and without a comma
DataUrls ==
    {H_Png \o <<",">> \o p : p \in Payloads}
    \cup {h \o <<",">> \o p : h \in Headers, p \in SamplePayloads}
    \cup Headers

\* request.get_json(): any JSON value
Bodies ==
    {JNull, JNum(<<"0">>), JNum(<<"7">>), JBool(TRUE), JBool(FALSE), JStr(<<>>),
     JStr(S_Pikachu), JStr(K_image), JList(<<>>), JList(<<JStr(K_image)>>),
     JList(<<JNum(<<"7">>)>>), JDict(NoD), JDict(K_extra :> JStr(H_Png)),
     JDict(K_image :> JNull), JDict(K_image :> JNum(<<"7">>)),
     JDict(K_image :> JList(<<>>)), JDict(K_image :> JDict(NoD))}
    \cup {JDict(K_image :> JStr(u)) : u \in DataUrls}

Seven == JNum(<<"7">>)

TextValues == {JNull, JStr(S_Pikachu)}

ListValues == {JNull, JList(<<>>), JList(<<JStr(S_Fire), JStr(S_Flying)>>), JStr(S_Fire)}

ModifierValues ==
    {JNull, JDict(NoD), JDict(K_type :> JStr(S_Fire)),
     JDict((K_type :> JStr(S_Fire)) @@ (K_value :> JStr(S_x2)) @@ (K_extra :> Seven)),
     JStr(S_Fire)}

AttackValues ==
    {JNull, JList(<<>>), JList(<<JDict(K_name :> JStr(S_Tackle))>>),
     JList(<<JDict((K_name :> JStr(S_Tackle)) @@ (K_cost :> JList(<<JStr(S_Fire)>>))),
             JStr(S_Fire), JDict(NoD)>>),
     JDict(K_name :> JStr(S_Tackle))}

\* the values a member of the model's JSON object may have
ValuesFor(key) ==
    CASE key = K_hp -> {JNull, JNum(<<"0">>), JStr(<<"6", "0">>)}
      [] key = K_card_name -> {JNull, JStr(S_Pikachu), JStr(<<>>)}
      [] key \in {K_pokemon_type, K_retreat_cost} -> ListValues
      [] key \in {K_weakness, K_resistance} -> ModifierValues
      [] key = K_attacks -> AttackValues
      [] key = K_error -> {JNull, JStr(S_NotJson)}
      [] key = K_raw_response -> {JStr(S_NotJson)}
      [] key = K_extra -> {Seven}
      [] OTHER -> TextValues

ReplyKeys == SchemaKeys \cup {K_error, K_raw_response, K_extra}

RECURSIVE ReplyItems(_)
\* the item sets of JSON objects with at most n members
ReplyItems(n) ==
    IF n = 0 THEN {NoD}
    ELSE LET less == ReplyItems(n - 1)
         IN  less \cup UNION {UNION {{(k :> v) @@ f : v \in ValuesFor(k)} :
                                     k \in ReplyKeys \ DOMAIN f} : f \in less}

\* json.loads(...): any JSON value
Replies ==
    {JDict(f) : f \in ReplyItems(MaxReplyKeys)}
    \cup {JNull, Seven, JBool(TRUE), JStr(S_Pikachu), JStr(K_error), JStr(K_hp), JList(<<>>),
          JList(<<JStr(K_hp)>>), JList(<<JStr(K_error)>>), JList(<<Seven>>)}

Loaded(value) == [exc |-> NoExc, val |-> value]

JSONDecodeError == [exc |-> Exc("JSONDecodeError", <<>>), val |-> JNull]

Worlds ==
    {[kind |-> "no_api_key"] @@ World(FALSE, NoExc, NoExc, NoExc, <<>>, <<>>, JSONDecodeError),
     [kind |-> "configure_raises"]
        @@ World(TRUE, Exc("ValueError", S_InvalidApiKeyFormat), NoExc, NoExc, <<>>, <<>>,
                 JSONDecodeError),
     [kind |-> "generate_raises"]
        @@ World(TRUE, NoExc, Exc("ServiceUnavailable", S_ConnectionFailed), NoExc, <<>>, <<>>,
                 JSONDecodeError),
     [kind |-> "blocked"]
        @@ World(TRUE, NoExc, NoExc, Exc("ValueError", S_NoValidPart), S_Safety, <<>>,
                 JSONDecodeError),
     [kind |-> "text_raises"]
        @@ World(TRUE, NoExc, NoExc, Exc("ValueError", S_NoValidPart), <<>>, <<>>,
                 JSONDecodeError),
     [kind |-> "not_json"]
        @@ World(TRUE, NoExc, NoExc, NoExc, <<>>, S_NotJson, JSONDecodeError)}
    \cup {[kind |-> "json"] @@ World(TRUE, NoExc, NoExc, NoExc, <<>>, <<>>, Loaded(v)) :
          v \in Replies}

EnvUnknown == [image |-> "unknown", save |-> "unknown", model |-> "unknown"]

(***************************************************************************)
(* scan_card, app.py 63-147, step by step.                                 *)
(***************************************************************************)
\* app.py 66-69: [exc, response, val]
GetImage(body) ==
    IF ~Truthy(body) THEN [exc |-> NoExc, response |-> NoImageResponse, val |-> JNull]
    ELSE LET has == PyIn(K_image, body)
         IN  IF has.exc # NoExc THEN [exc |-> has.exc, response |-> NoResponse, val |-> JNull]
             ELSE IF ~has.val
             THEN [exc |-> NoExc, response |-> NoImageResponse, val |-> JNull]
             ELSE [exc |-> PyGetItem(body, K_image).exc, response |-> NoResponse,
                   val |-> PyGetItem(body, K_image).val]

Init ==
    /\ pc = "idle"
    /\ data = JNull
    /\ image_data_url = JNull
    /\ image_bytes = <<>>
    /\ header = <<>>
    /\ env = EnvUnknown
    /\ llm_response = JNull
    /\ response = NoResponse
    /\ uncaught = NoExc
    /\ files_written = 0
    /\ model_calls = 0
    /\ outbound_calls = 0
    /\ heap = PokemonCardSchemaObjects
    /\ raw_response_text = <<>>
    /\ card_data = JNull

\* app.py 65: a request arrives and scan_card is entered with fresh locals
Request ==
    /\ pc = "idle"
    /\ \E body \in Bodies : data' = body
    /\ pc' = "line66"
    /\ UNCHANGED <<image_data_url, image_bytes, header, env, llm_response, response,
                   uncaught, files_written, model_calls, outbound_calls, heap,
                   raw_response_text, card_data>>

\* scan_card has returned or raised: the answer is sent and the frame is dropped
Return ==
    /\ pc = "done"
    /\ pc' = "idle"
    /\ data' = JNull
    /\ image_data_url' = JNull
    /\ image_bytes' = <<>>
    /\ header' = <<>>
    /\ env' = EnvUnknown
    /\ llm_response' = JNull
    /\ response' = NoResponse
    /\ uncaught' = NoExc
    /\ files_written' = 0
    /\ model_calls' = 0
    /\ outbound_calls' = 0
    /\ UNCHANGED <<heap, raw_response_text, card_data>>

\* app.py 66-69, outside the try block: an exception here leaves scan_card
CheckImage ==
    /\ pc = "line66"
    /\ LET r == GetImage(data)
       IN  /\ uncaught' = r.exc
           /\ response' = r.response
           /\ image_data_url' = r.val
           /\ pc' = IF r.exc # NoExc \/ r.response # NoResponse THEN "done" ELSE "line74"
    /\ UNCHANGED <<data, image_bytes, header, env, llm_response, files_written, model_calls,
                   outbound_calls, heap, raw_response_text, card_data>>

\* app.py 74-75
DecodeImage ==
    /\ pc = "line74"
    /\ LET r == DecodeDataUrl(image_data_url)
       IN  /\ header' = r.header
           /\ image_bytes' = r.image_bytes
           /\ response' = IF r.exc # NoExc THEN HandleException(r.exc) ELSE NoResponse
           /\ pc' = IF r.exc # NoExc THEN "done" ELSE "line78"
    /\ UNCHANGED <<data, image_data_url, env, llm_response, uncaught, files_written,
                   model_calls, outbound_calls, heap, raw_response_text, card_data>>

\* app.py 78-86; the request body and the header are not read again
SaveImage ==
    /\ pc = "line78"
    /\ \E is_image \in BOOLEAN, save \in {"ok", "raises", "raises_leaving_file"} :
        LET r == SaveDebugImage(header, is_image, save)
            opened == ImageFormat(header).exc = NoExc
        IN  /\ files_written' = files_written + r.wrote
            /\ env' = [env EXCEPT !.image = IF ~opened THEN "unknown"
                                            ELSE IF is_image THEN "image" ELSE "not_image",
                                  !.save = IF opened /\ is_image THEN save ELSE "unknown"]
            /\ response' = IF r.exc # NoExc THEN HandleException(r.exc) ELSE NoResponse
            /\ pc' = IF r.exc # NoExc THEN "done" ELSE "line89"
    /\ data' = JNull
    /\ image_data_url' = JNull
    /\ header' = <<>>
    /\ UNCHANGED <<image_bytes, llm_response, uncaught, model_calls, outbound_calls, heap,
                   raw_response_text, card_data>>

\* app.py 89; the image bytes are not read again
CallModel ==
    /\ pc = "line89"
    /\ \E world \in Worlds :
        LET r == extract_card_info_gemini(env.image = "image", world)
        IN  /\ model_calls' = model_calls + 1
            /\ outbound_calls' = outbound_calls + r.called
            /\ env' = [env EXCEPT !.model = world.kind]
            /\ llm_response' = r.val
            /\ response' = IF r.exc # NoExc THEN HandleException(r.exc) ELSE NoResponse
            /\ pc' = IF r.exc # NoExc THEN "done" ELSE "line91"
    /\ image_bytes' = <<>>
    /\ UNCHANGED <<data, image_data_url, header, uncaught, files_written, heap,
                   raw_response_text, card_data>>

\* app.py 91-140; the objects the request created are dropped with it
ProcessResult ==
    /\ pc = "line91"
    /\ LET r == ProcessLLMResponse(heap, llm_response)
       IN  /\ response' = IF r.exc # NoExc THEN HandleException(r.exc) ELSE r.response
           /\ heap' = [id \in DOMAIN heap |-> r.heap[id]]
    /\ pc' = "done"
    /\ UNCHANGED <<data, image_data_url, image_bytes, header, env, llm_response, uncaught,
                   files_written, model_calls, outbound_calls, raw_response_text, card_data>>

Next ==
    \/ Request
    \/ CheckImage
    \/ DecodeImage
    \/ SaveImage
    \/ CallModel
    \/ ProcessResult
    \/ Return

Spec == Init /\ [][Next]_vars

(***************************************************************************)
(* The model client's response cleanup and parse: llm_handler.py 107-116.  *)
(***************************************************************************)
\* the characters str.strip() removes, of those the replies below are made of
PyWhitespace == {" ", "\t", "\n", "\r", "\f"}

\* the characters json.loads skips around a document
JsonWhitespace == {" ", "\t", "\n", "\r"}

RECURSIVE LStrip(_, _)
LStrip(s, ws) == IF s # <<>> /\ Head(s) \in ws THEN LStrip(Tail(s), ws) ELSE s

RECURSIVE RStrip(_, _)
RStrip(s, ws) ==
    IF s # <<>> /\ s[Len(s)] \in ws THEN RStrip(SubSeq(s, 1, Len(s) - 1), ws) ELSE s

\* s.strip()
PyStrip(s) == RStrip(LStrip(s, PyWhitespace), PyWhitespace)

\* s[start:-3] for 0 <= start
SliceToMinus3(s, start) == SubSeq(s, start + 1, Len(s) - 3)

Fence == <<Backtick, Backtick, Backtick>>

FenceJson == Fence \o <<"j", "s", "o", "n">>

\* StripFence cutting three characters whatever the fence: the tag stays
StripFence_TagKept(text) ==
    IF StartsWith(text, Fence) THEN PyStrip(SliceToMinus3(text, 3)) ELSE text

\* llm_handler.py 111-114
StripFence(text) ==
    IF StartsWith(text, FenceJson) THEN PyStrip(SliceToMinus3(text, 7))
    ELSE IF StartsWith(text, Fence) THEN PyStrip(SliceToMinus3(text, 3))
    ELSE text

\* the JSON documents of the replies below, each with the value it denotes
JsonDocuments ==
    {[text |-> <<"{", "}">>, value |-> JDict(NoD)],
     [text |-> <<"7">>, value |-> Seven],
     [text |-> <<"\"", "h", "p", "\"">>, value |-> JStr(K_hp)],
     [text |-> <<"{", "\"", "h", "p", "\"", ":", "7", "}">>, value |-> JDict(K_hp :> Seven)]}

\* json.loads(text), on the texts the cleanup makes of the replies below: a
\* document of JsonDocuments between JSON whitespace, and anything else fails
JsonLoads(text) ==
    LET body == RStrip(LStrip(text, JsonWhitespace), JsonWhitespace)
    IN  IF \E doc \in JsonDocuments : doc.text = body
        THEN Loaded((CHOOSE doc \in JsonDocuments : doc.text = body).value)
        ELSE JSONDecodeError

\* longest run of whitespace between a fence and the document
MaxPad == 1

\* whitespace around the whole reply
OuterPads == {<<>>, <<" ">>}

Runs(chars, n) == UNION {[1..k -> chars] : k \in 0..n}

\* what follows the opening backticks: nothing, or a language tag
Opens == {<<>>, Fence, FenceJson, Fence \o <<"J", "S", "O", "N">>}

DocTexts == {doc.text : doc \in JsonDocuments} \cup {S_NotJson, <<"{">>}

\* response.text: whitespace, an opening fence, whitespace, a document, whitespace,
\* a closing fence, whitespace, each part possibly empty
TextShapes ==
    [lead : OuterPads, open : Opens, before : Runs({"\n", "\f"}, MaxPad),
     doc : DocTexts, after : Runs({"\n", "\f"}, MaxPad), close : {<<>>, Fence},
     trail : OuterPads]

TextOf(shape) ==
    shape.lead \o shape.open \o shape.before \o shape.doc \o shape.after \o shape.close
    \o shape.trail

InitText ==
    /\ pc = "line107"
    /\ env \in TextShapes
    /\ raw_response_text = TextOf(env)
    /\ card_data = JNull
    /\ data = JNull
    /\ image_data_url = JNull
    /\ image_bytes = <<>>
    /\ header = <<>>
    /\ llm_response = JNull
    /\ response = NoResponse
    /\ uncaught = NoExc
    /\ files_written = 0
    /\ model_calls = 0
    /\ outbound_calls = 0
    /\ heap = PokemonCardSchemaObjects

\* llm_handler.py 107
StripText ==
    /\ pc = "line107"
    /\ raw_response_text' = PyStrip(raw_response_text)
    /\ pc' = "line111"
    /\ UNCHANGED <<data, image_data_url, image_bytes, header, env, llm_response, response,
                   uncaught, files_written, model_calls, outbound_calls, heap, card_data>>

\* llm_handler.py 111-114
CleanFence ==
    /\ pc = "line111"
    /\ raw_response_text' = StripFence(raw_response_text)
    /\ pc' = "line116"
    /\ UNCHANGED <<data, image_data_url, image_bytes, header, env, llm_response, response,
                   uncaught, files_written, model_calls, outbound_calls, heap, card_data>>

\* llm_handler.py 116
ParseText ==
    /\ pc = "line116"
    /\ card_data' = JsonLoads(raw_response_text)
    /\ pc' = "line117"
    /\ UNCHANGED <<data, image_data_url, image_bytes, header, env, llm_response, response,
                   uncaught, files_written, model_calls, outbound_calls, heap,
                   raw_response_text>>

NextText ==
    \/ StripText
    \/ CleanFence
    \/ ParseText

SpecText == InitText /\ [][NextText]_vars

(***************************************************************************)
(* The properties.                                                         *)
(***************************************************************************)
Answered == pc = "done"

Success == Answered /\ response.status = 200

\* the body is {"error": <text starting with prefix>}, possibly with the raw reply
ErrorAnswer(r, status, prefix, members) ==
    /\ r.status = status
    /\ r.body.t = "dict"
    /\ K_error \in DOMAIN r.body.d
    /\ DOMAIN r.body.d \subseteq members
    /\ r.body.d[K_error].t = "str"
    /\ StartsWith(r.body.d[K_error].v, prefix)

LLMErrorAnswer(r) == ErrorAnswer(r, 500, S_LLMProcessingError, {K_error, K_llm_raw_response})

UnexpectedAnswer(r) == ErrorAnswer(r, 500, S_UnexpectedError, {K_error})

InvalidBase64Response == [status |-> 400, body |-> ErrorBody(S_InvalidBase64)]

CardRecord(r) == r.status = 200 /\ r.body.t = "dict" /\ SchemaKeys \subseteq DOMAIN r.body.d

\* the model reply has no value for the field: it is absent or null
Omitted(llm, key) == llm.t # "dict" \/ key \notin DOMAIN llm.d \/ llm.d[key] = JNull

\* out has raw's value for every key of raw and default's value for every other
\* key of default, and no other key
Overlaid(raw, default, out) ==
    /\ out.t = "dict"
    /\ DOMAIN out.d = DOMAIN raw.d \cup DOMAIN default.d
    /\ \A k \in DOMAIN raw.d : out.d[k] = raw.d[k]
    /\ \A k \in DOMAIN default.d \ DOMAIN raw.d : out.d[k] = default.d[k]

AttackDefault == SchemaDefault.d[K_attacks].l[1]

\* C1: every 200 response is a JSON object that has every top-level key of
\* POKEMON_CARD_SCHEMA, whatever JSON value the model client returned.
C1_SuccessHasEverySchemaKey == Success => CardRecord(response)

\* C1 witness: a 200 response to a reply with a wrongly typed field and an extra key
C1_Witness ==
    /\ Success
    /\ llm_response.t = "dict"
    /\ DOMAIN llm_response.d = {K_weakness, K_extra}
    /\ llm_response.d[K_weakness].t = "str"

\* C2: in a 200 response, every schema field the reply omits or sets to null has
\* exactly the schema default, whatever the other fields of the reply are.
C2_OmittedFieldHasDefault ==
    Success =>
        \A key \in SchemaKeys :
            Omitted(llm_response, key) =>
                /\ key \in DOMAIN response.body.d
                /\ response.body.d[key] = SchemaDefault.d[key]

\* C2 witness: a 200 response to a reply whose attacks is null and whose
\* card_name is given
C2_Witness ==
    /\ Success
    /\ llm_response.t = "dict"
    /\ DOMAIN llm_response.d = {K_attacks, K_card_name}
    /\ llm_response.d[K_attacks] = JNull
    /\ llm_response.d[K_card_name] = JStr(S_Pikachu)
    /\ response.body.d[K_attacks] = SchemaDefault.d[K_attacks]

\* C3: in a 200 response, a raw weakness or resistance that is a mapping is laid
\* over the default one level deep, and a non-empty raw attacks list gives a
\* list of the same length and order whose mappings are laid over the attack
\* default and whose other entries are the raw entries.
C3_OneLevelOverlay ==
    (Success /\ llm_response.t = "dict") =>
        /\ \A key \in {K_weakness, K_resistance} \cap DOMAIN llm_response.d :
              llm_response.d[key].t = "dict" =>
                  Overlaid(llm_response.d[key], SchemaDefault.d[key], response.body.d[key])
        /\ (K_attacks \in DOMAIN llm_response.d
            /\ llm_response.d[K_attacks].t = "list"
            /\ llm_response.d[K_attacks].l # <<>>) =>
              LET raw == llm_response.d[K_attacks].l
                  out == response.body.d[K_attacks]
              IN  /\ out.t = "list"
                  /\ Len(out.l) = Len(raw)
                  /\ \A i \in 1..Len(raw) :
                        IF raw[i].t = "dict" THEN Overlaid(raw[i], AttackDefault, out.l[i])
                        ELSE out.l[i] = raw[i]

\* C3 witness: weakness {"type": "Fire"} answered as {"type": "Fire", "value": null},
\* with an attacks list of a mapping, a string and an empty mapping
C3_Witness ==
    /\ Success
    /\ llm_response.t = "dict"
    /\ DOMAIN llm_response.d = {K_weakness, K_attacks}
    /\ llm_response.d[K_weakness] = JDict(K_type :> JStr(S_Fire))
    /\ response.body.d[K_weakness] = JDict((K_type :> JStr(S_Fire)) @@ (K_value :> JNull))
    /\ llm_response.d[K_attacks].t = "list"
    /\ Len(llm_response.d[K_attacks].l) = 3
    /\ response.body.d[K_attacks].l[2] = JStr(S_Fire)
    /\ response.body.d[K_attacks].l[3] = AttackDefault

FailedCalls == {"no_api_key", "configure_raises", "generate_raises", "blocked", "text_raises"}

\* C4: when the model call fails for a transport or configuration reason, the
\* model client returns an error value and scan_card answers 500 with
\* "LLM processing error: <msg>".
C4_FailedCallIsLLMError ==
    (Answered /\ env.model \in FailedCalls) => LLMErrorAnswer(response)

\* RFC 4648: whole quads of alphabet characters, the last one padded with at
\* most two "="
WellFormedBase64(p) ==
    /\ Len(p) % 4 = 0
    /\ \E n \in 0..2 :
        /\ n <= Len(p)
        /\ \A i \in 1..(Len(p) - n) : p[i] \in B64Alphabet
        /\ \A i \in (Len(p) - n + 1)..Len(p) : p[i] = "="

\* the data URL of the request has a comma and what follows it is not base64
MalformedPayload ==
    /\ image_data_url.t = "str"
    /\ Find(image_data_url.v, ",") # 0
    /\ ~WellFormedBase64(Split1(image_data_url.v, ",")[2])

\* C5: a data URL whose part after the first comma is not well-formed base64 is
\* answered 400 "Invalid base64 image data", and never decoded and carried on.
C5_MalformedBase64Is400 ==
    (pc \in {"line78", "done"} /\ MalformedPayload) =>
        (Answered /\ response = InvalidBase64Response)

\* the reply is a fenced code block: backticks, perhaps a language tag, a body
\* and closing backticks, with whitespace around
Fenced == env.open # <<>> /\ env.close = Fence

\* the reply has no fence at all
NotFenced == env.open = <<>> /\ env.close = <<>>

\* what the fences of a fenced reply enclose
Unwrapped == env.before \o env.doc \o env.after

Parsed == pc = "line117"

Documented(r) ==
    \/ CardRecord(r)
    \/ r = NoImageResponse
    \/ r = InvalidBase64Response
    \/ LLMErrorAnswer(r)
    \/ UnexpectedAnswer(r)

\* C7: every request, whatever its JSON body and whatever the steps do, ends in
\* one of the documented responses, and no exception leaves scan_card.
C7_EveryRequestIsAnswered ==
    Answered => (uncaught = NoExc /\ Documented(response))

\* C8: the model client is invoked at most once and only after the decode and the
\* debug-file write succeeded; a 400 has written no file and made no model
\* call; bytes that are no image, or a file that cannot be saved, give the
\* generic 500 without a model call; a failed model call has left one file.
C8_StepsAreOrdered ==
    /\ model_calls <= 1
    /\ outbound_calls <= model_calls
    /\ model_calls = 1 =>
          (files_written = 1 /\ env.image = "image" /\ env.save = "ok"
           /\ pc \in {"line91", "done"})
    /\ (Answered /\ response.status = 400) => (files_written = 0 /\ model_calls = 0)
    /\ (Answered /\ (env.image = "not_image" \/ env.save \in {"raises", "raises_leaving_file"}))
          => (UnexpectedAnswer(response) /\ model_calls = 0)
    /\ (Answered /\ env.model \in FailedCalls) => files_written = 1

\* C8 witness: the provider call raised, after one file was written
C8_Witness ==
    /\ Answered
    /\ env.model = "generate_raises"
    /\ outbound_calls = 1
    /\ files_written = 1

\* C9: the schema objects are never changed by a request, so every Card Record
\* is what the reply gives against the schema as written.
C9_SchemaUnchanged ==
    /\ heap = PokemonCardSchemaObjects
    /\ Success => response.body = Reconcile(PokemonCardSchemaObjects, llm_response).body

\* C9 witness: a request that merged a nested mapping and an attacks list has
\* been answered
C9_Witness ==
    /\ Success
    /\ llm_response.t = "dict"
    /\ DOMAIN llm_response.d = {K_resistance, K_attacks}
    /\ llm_response.d[K_resistance].t = "dict"
    /\ K_extra \in DOMAIN llm_response.d[K_resistance].d
    /\ llm_response.d[K_attacks] = JList(<<JDict(K_name :> JStr(S_Tackle))>>)

\* C10: a parsed JSON object with an "error" member is answered 500 "LLM
\* processing error: ..." and never reconciled; one without is reconciled and
\* answered 200.
C10_ErrorMemberDecides ==
    (Answered /\ env.model = "json" /\ llm_response.t = "dict") =>
        IF K_error \in DOMAIN llm_response.d
        THEN LLMErrorAnswer(response)
        ELSE CardRecord(response)

\* C10 witness: a reply {"error": null, "card_name": "Pikachu"} answered 500
C10_Witness ==
    /\ Answered
    /\ env.model = "json"
    /\ llm_response = JDict((K_error :> JNull) @@ (K_card_name :> JStr(S_Pikachu)))
    /\ response.status = 500
    /\ response.body.d[K_error] = JStr(S_LLMProcessingError \o S_None)
====
